---- MODULE Spec2Model ----
(***************************************************************************)
(* Model of led_fun/device.py: the USB transport session WriteLibUsb, the  *)
(* protocol header builder LedNameBadge.header and the orchestrator        *)
(* LedNameBadge.write.                                                     *)
(*                                                                         *)
(* Strings that the code compares or sorts (device ids) are sequences of   *)
(* character codes, so that Python's string order is the lexicographic     *)
(* order of the sequences.  Byte buffers are sequences of 0..255.          *)
(***************************************************************************)
EXTENDS Integers, Sequences, FiniteSets, TLC

VARIABLES
    module_loaded,  \* WriteLibUsb._module_loaded (class attribute, set at import)
    attached,       \* the USB devices usb.core.find() reports (environment)
    devices,        \* self.devices: did -> (descr, d, ep)
    description,    \* self.description
    dev,            \* self.dev
    endpoint,       \* self.endpoint
    buf,            \* the array handed to the latest write(), as the call left it
    usb,            \* the calls made on the USB access layer, in order
    fatal,          \* "none", or the message printed before sys.exit(1)
    last,           \* the latest call: name, argument, Some(return value), state before
    ncalls,         \* number of calls made so far
    nwrites,        \* number of write() calls among them
    hin,            \* arguments of the latest LedNameBadge.header call
    hout            \* its outcome: [status, h]

vars == <<module_loaded, attached, devices, description, dev, endpoint, buf,
          usb, fatal, last, ncalls, nwrites, hin, hout>>

----------------------------------------------------------------------------
(* Bounds of the exploration *)

\* calls made on one session
MaxCalls == 3
\* write() calls among them
MaxWrites == 1

----------------------------------------------------------------------------
(* Python values *)

\* None, and every other falsy "nothing" the code tests with `if x:`.  A value
\* that may be None is kept as a sequence: <<>> for None, <<x>> for the value x.
None == <<>>

Some(x) == <<x>>

\* the element of a one-element set; { F(x) : x \in {e} } computes e once
The(S) == CHOOSE x \in S : TRUE

Min(a, b) == IF a < b THEN a ELSE b

Max(a, b) == IF a > b THEN a ELSE b

\* "%d" % n for n >= 0, as character codes
RECURSIVE Dec(_)
Dec(n) == IF n < 10 THEN <<48 + n>> ELSE Dec(n \div 10) \o <<48 + (n % 10)>>

\* a < b for Python str: lexicographic by code point, a proper prefix is smaller
StrLess(a, b) ==
    \E k \in 1..(Min(Len(a), Len(b)) + 1) :
        /\ \A j \in 1..(k - 1) : a[j] = b[j]
        /\ \/ k > Len(a) /\ k <= Len(b)
           \/ k <= Len(a) /\ k <= Len(b) /\ a[k] < b[k]

\* the string 'auto'
Auto == <<97, 117, 116, 111>>

\* buf[lo:hi] of a Python sequence (0-based, end-exclusive, cut at the end)
Slice(b, lo, hi) ==
    IF Min(hi, Len(b)) <= lo THEN <<>> ELSE SubSeq(b, lo + 1, Min(hi, Len(b)))

----------------------------------------------------------------------------
(* The USB access layer (pyusb), as far as the session uses it *)

\* idVendor=0x0416, idProduct=0x5020 devices that may be plugged in; eps are the
\* bEndpointAddress values of the active configuration's interface (0, 0)
UsbDevices ==
    { [bus |-> 1, address |-> 2,  eps |-> {3, 1, 129}],
      [bus |-> 1, address |-> 10, eps |-> {1, 130}] }

\* usb.util.endpoint_direction(address) == ENDPOINT_OUT: bit 7 clear
IsOut(address) == (address \div 128) % 2 = 0

\* one call on the access layer: d and ep are None or Some(...)
Event(op, d, ep, data) == [op |-> op, dev |-> d, ep |-> ep, data |-> data]

\* the devices of a set in the order find() yields them (by bus, address)
RECURSIVE DevSeq(_)
DevSeq(S) ==
    IF S = {} THEN <<>>
    ELSE LET d == CHOOSE x \in S : \A y \in S :
                      \/ x.bus < y.bus
                      \/ x.bus = y.bus /\ x.address <= y.address
         IN  <<d>> \o DevSeq(S \ {d})

----------------------------------------------------------------------------
(* class WriteLibUsb.  Each method is an operator from the state s before   *)
(* the call to the state after it; s.ret is the return value and            *)
(* s.fatal # "none" means the call ended in sys.exit(1).                    *)
(*                                                                          *)
(* The USB layer fails where the code expects it to: set_configuration may  *)
(* raise USBError (grant = FALSE).  is_kernel_driver_active and             *)
(* detach_kernel_driver sit in try/except-pass blocks and leave the session *)
(* as it is; find, reset, dispose_resources and endpoint.write return       *)
(* normally.  What the code prints is not part of the state, except the     *)
(* message that goes with sys.exit(1).                                      *)

Session == [devices |-> devices, description |-> description, dev |-> dev,
            endpoint |-> endpoint, buf |-> buf, usb |-> usb, fatal |-> fatal,
            ret |-> None]

\* __init__
NewSession == [devices |-> <<>>, description |-> None, dev |-> None,
               endpoint |-> None, buf |-> buf, usb |-> usb, fatal |-> fatal,
               ret |-> None]

is_ready == module_loaded

\* "%d:%d:%d" % (d.bus, d.address, ep.bEndpointAddress)
Did(d, ep) == Dec(d.bus) \o <<58>> \o Dec(d.address) \o <<58>> \o Dec(ep)

\* the values interpolated into descr; manufacturer and product are the same
\* for every device of this vendor/product pair
Descr(d, ep) == [bus |-> d.bus, dev |-> d.address, endpoint |-> ep]

\* the (device, OUT endpoint) pairs of a set of devices
OutEndpoints(S) == UNION { { <<d, e>> : e \in { x \in d.eps : IsOut(x) } } : d \in S }

\* _get_available_devices: grant tells whether the OS lets set_configuration through
_get_available_devices(s, grant) ==
    LET ds    == DevSeq(attached)
        find  == <<Event("find", None, None, <<>>)>>
        conf  == [i \in 1..Len(ds) |->
                     Event("set_configuration", Some(ds[i]), None, <<>>)]
        pairs == OutEndpoints(attached)
        found == [k \in { Did(p[1], p[2]) : p \in pairs } |->
                     LET p == CHOOSE p \in pairs : Did(p[1], p[2]) = k
                     IN  <<Descr(p[1], p[2]), p[1], [dev |-> p[1], address |-> p[2]]>>]
    IN  IF ds # <<>> /\ ~grant
        THEN [s EXCEPT !.usb = s.usb \o find \o
                   <<Event("set_configuration_denied", Some(ds[1]), None, <<>>)>>,
                       !.fatal = "No read access to device list!"]
        ELSE [s EXCEPT !.usb = s.usb \o find \o conf, !.ret = found]

\* get_available_devices without the `and not self.devices`: every call scans
get_available_devices_rescan(s, grant) ==
    IF is_ready
    THEN The({ IF q.fatal # "none" THEN q
               ELSE [q EXCEPT !.devices = q.ret,
                              !.ret = [k \in DOMAIN q.ret |-> q.ret[k][1]]]
               : q \in {_get_available_devices(s, grant)} })
    ELSE [s EXCEPT !.ret = [k \in DOMAIN s.devices |-> s.devices[k][1]]]

\* get_available_devices
get_available_devices(s, grant) ==
    IF is_ready /\ DOMAIN s.devices = {}
    THEN The({ IF q.fatal # "none" THEN q
               ELSE [q EXCEPT !.devices = q.ret,
                              !.ret = [k \in DOMAIN q.ret |-> q.ret[k][1]]]
               : q \in {_get_available_devices(s, grant)} })
    ELSE [s EXCEPT !.ret = [k \in DOMAIN s.devices |-> s.devices[k][1]]]

\* is_device_present
is_device_present(s, grant) ==
    The({ IF q.fatal # "none" THEN q
          ELSE [q EXCEPT !.ret = (DOMAIN q.devices # {})]
          : q \in {get_available_devices(s, grant)} })

\* sorted(keys)[-1]: the last id instead of the first
SortedLast(keys) == CHOOSE k \in keys : \A j \in keys : k = j \/ StrLess(j, k)

\* sorted(keys)[0]
SortedFirst(keys) == CHOOSE k \in keys : \A j \in keys : k = j \/ StrLess(k, j)

\* _open
_open(s, device_id) ==
    [s EXCEPT !.description = Some(s.devices[device_id][1]),
              !.dev = Some(s.devices[device_id][2]),
              !.endpoint = Some(s.devices[device_id][3]),
              !.ret = TRUE]

\* open() that falls back to the first id when the requested one is unknown
ActualDeviceId_fallback(s, device_id) ==
    IF device_id \in DOMAIN s.devices THEN device_id
    ELSE SortedFirst(DOMAIN s.devices)

\* the device id open() settles on: None when there is none
ActualDeviceId(s, device_id) ==
    IF device_id = Auto THEN SortedFirst(DOMAIN s.devices)
    ELSE IF device_id \in DOMAIN s.devices THEN device_id
    ELSE None

\* open
open(s, device_id, grant) ==
    IF ~is_ready THEN [s EXCEPT !.ret = FALSE]
    ELSE The({ IF q.fatal # "none" THEN q
               ELSE IF ~q.ret THEN [q EXCEPT !.ret = FALSE]
               ELSE The({ IF actual_device_id # None
                          THEN _open(q, actual_device_id)
                          ELSE [q EXCEPT !.ret = FALSE]
                          : actual_device_id \in {ActualDeviceId(q, device_id)} })
               : q \in {is_device_present(s, grant)} })

\* add_padding without the `if need_padding`: an aligned buffer grows by a block
add_padding_always(b, block_size) ==
    b \o [i \in 1..(block_size - (Len(b) % block_size)) |-> 0]

\* add_padding
add_padding(b, block_size) ==
    LET need_padding == Len(b) % block_size
    IN  IF need_padding # 0
        THEN b \o [i \in 1..(block_size - need_padding) |-> 0]
        ELSE b

\* check_length counting blocks where the limit counts bytes
check_length_blocks(b, max_size) == ~(Len(b) \div 64 > max_size)

\* check_length: TRUE when the call returns, FALSE when it ends in sys.exit(1)
check_length(b, max_size) == ~(Len(b) > max_size)

\* close that forgets `self.dev = None`
close_keeps_dev(s) ==
    [s EXCEPT !.usb = IF s.dev # None
                      THEN s.usb \o <<Event("reset", s.dev, None, <<>>),
                                      Event("dispose_resources", s.dev, None, <<>>)>>
                      ELSE s.usb,
              !.description = None, !.endpoint = None, !.ret = None]

\* close
close(s) ==
    LET q == IF s.dev # None
             THEN [s EXCEPT !.usb = s.usb \o
                       <<Event("reset", s.dev, None, <<>>),
                         Event("dispose_resources", s.dev, None, <<>>)>>]
             ELSE s
    IN  [q EXCEPT !.description = None, !.dev = None, !.endpoint = None,
                  !.ret = None]

\* the loop of _write with range(int(len(buf) / 64) - 1): the last chunk is lost
Chunks_short(s, b) ==
    [i \in 1..((Len(b) \div 64) - 1) |->
        Event("write", s.dev, s.endpoint, Slice(b, (i - 1) * 64, (i - 1) * 64 + 64))]

\* the endpoint writes of _write's loop, in the order they are made
Chunks(s, b) ==
    [i \in 1..(Len(b) \div 64) |->
        Event("write", s.dev, s.endpoint, Slice(b, (i - 1) * 64, (i - 1) * 64 + 64))]

\* _write that claims the configuration a second time after a denial and goes on
_write_retries(s, b, grant) ==
    IF s.dev = None THEN [s EXCEPT !.ret = None]
    ELSE [s EXCEPT !.usb = s.usb \o
              (IF grant THEN <<>>
               ELSE <<Event("set_configuration_denied", s.dev, None, <<>>)>>) \o
              <<Event("set_configuration", s.dev, None, <<>>)>> \o Chunks(s, b),
                   !.ret = None]

\* _write without the `if not self.dev: return`
_write_unguarded(s, b, grant) ==
    IF ~grant
    THEN [s EXCEPT !.usb = s.usb \o
              <<Event("set_configuration_denied", s.dev, None, <<>>)>>,
                   !.fatal = "No write access to device!"]
    ELSE [s EXCEPT !.usb = s.usb \o
              <<Event("set_configuration", s.dev, None, <<>>)>> \o
              [i \in 1..(Len(b) \div 64) |->
                  Event("write", s.dev, s.endpoint,
                        Slice(b, (i - 1) * 64, (i - 1) * 64 + 64))],
                   !.ret = None]

\* _write
_write(s, b, grant) ==
    IF s.dev = None THEN [s EXCEPT !.ret = None]
    ELSE IF ~grant
         THEN [s EXCEPT !.usb = s.usb \o
                   <<Event("set_configuration_denied", s.dev, None, <<>>)>>,
                        !.fatal = "No write access to device!"]
         ELSE [s EXCEPT !.usb = s.usb \o
                   <<Event("set_configuration", s.dev, None, <<>>)>> \o Chunks(s, b),
                        !.ret = None]

\* write: b is padded in place before anything else happens
write(s, b, grant) ==
    The({ IF ~check_length(padded, 8192)
          THEN [s EXCEPT !.buf = padded,
                         !.fatal = "Writing more than 8192 bytes damages the display!"]
          ELSE _write([s EXCEPT !.buf = padded], padded, grant)
          : padded \in {add_padding(b, 64)} })

\* has_device
has_device(s) == s.dev # None

\* LedNameBadge.write: a new session, open('auto'), write, close.  Nothing
\* catches SystemExit, so a call that ends in sys.exit(1) ends the function.
\* s.ret lists the session methods that were entered.
LedNameBadge_write(s, b, grantOpen, grantWrite) ==
    The({ IF s1.fatal # "none" THEN [s1 EXCEPT !.ret = <<"open">>]
          ELSE The({ IF s2.fatal # "none"
                     THEN [s2 EXCEPT !.ret = <<"open", "write">>]
                     ELSE [close(s2) EXCEPT !.ret = <<"open", "write", "close">>]
                     : s2 \in {write(s1, b, grantWrite)} })
          : s1 \in {open(s, Auto, grantOpen)} })

----------------------------------------------------------------------------
(* class LedNameBadge: the protocol header.  A Python list h is the sequence *)
(* whose element k + 1 is h[k].                                              *)

_protocol_header_template ==
    <<119, 97, 110, 103, 0, 0, 0, 0, 64, 64, 64, 64, 64, 64, 64, 64,
      0, 0, 0, 0, 0, 0, 0, 0, 0, 0, 0, 0, 0, 0, 0, 0,
      0, 0, 0, 0, 0, 0, 0, 0, 0, 0, 0, 0, 0, 0, 0, 0,
      0, 0, 0, 0, 0, 0, 0, 0, 0, 0, 0, 0, 0, 0, 0, 0>>

RECURSIVE SumSeq(_)
SumSeq(q) == IF q = <<>> THEN 0 ELSE q[1] + SumSeq(Tail(q))

RECURSIVE Pow2(_)
Pow2(i) == IF i = 0 THEN 1 ELSE 2 * Pow2(i - 1)

\* _prepare_iterable without the min(max(x, min_), max_)
_prepare_iterable_unclamped(iterable, min_, max_) ==
    IF Len(iterable) = 0 THEN [ok |-> FALSE, v |-> <<>>]
    ELSE [ok |-> TRUE,
          v  |-> [i \in 1..Max(8, Len(iterable)) |->
                     IF i <= Len(iterable) THEN iterable[i]
                     ELSE iterable[Len(iterable)]]]

\* _prepare_iterable that fills the free slots with min_ instead of the last element
_prepare_iterable_min_filled(iterable, min_, max_) ==
    IF Len(iterable) = 0 THEN [ok |-> FALSE, v |-> <<>>]
    ELSE [ok |-> TRUE,
          v  |-> [i \in 1..Max(8, Len(iterable)) |->
                     IF i <= Len(iterable) THEN Min(Max(iterable[i], min_), max_)
                     ELSE min_]]

\* _prepare_iterable: [ok |-> FALSE] stands for the TypeError
_prepare_iterable(iterable, min_, max_) ==
    IF Len(iterable) = 0 THEN [ok |-> FALSE, v |-> <<>>]
    ELSE The({ [ok |-> TRUE,
                v  |-> clamped \o [i \in 1..(8 - Len(clamped)) |-> clamped[Len(clamped)]]]
               : clamped \in { [i \in 1..Len(iterable) |->
                                   Min(Max(iterable[i], min_), max_)] } })

\* the brightness steps with < where the code has <=
SetBrightness_strict(h, brightness) ==
    IF brightness < 25 THEN [h EXCEPT ![5 + 1] = 64]
    ELSE IF brightness < 50 THEN [h EXCEPT ![5 + 1] = 32]
    ELSE IF brightness < 75 THEN [h EXCEPT ![5 + 1] = 16]
    ELSE h

\* header, lines 269-275: the brightness byte
SetBrightness(h, brightness) ==
    IF brightness <= 25 THEN [h EXCEPT ![5 + 1] = 64]
    ELSE IF brightness <= 50 THEN [h EXCEPT ![5 + 1] = 32]
    ELSE IF brightness <= 75 THEN [h EXCEPT ![5 + 1] = 16]
    ELSE h

\* header, lines 277-282: the flag bytes and the speed/mode bytes; speeds are
\* already zero-based
SetFlagsAndModes(h, blinks, ants, speeds, modes) ==
    [k \in 1..Len(h) |->
        IF k = 6 + 1 THEN h[k] + SumSeq([i \in 1..8 |-> blinks[i] * Pow2(i - 1)])
        ELSE IF k = 7 + 1 THEN h[k] + SumSeq([i \in 1..8 |-> ants[i] * Pow2(i - 1)])
        ELSE IF k \in (8 + 1)..(8 + 8) THEN 16 * speeds[k - 8] + modes[k - 8]
        ELSE h[k]]

\* the loop over lengths with the two bytes of a length in the other order
RECURSIVE SetLengths_low_first(_, _, _)
SetLengths_low_first(h, lengths, i) ==
    IF i >= Len(lengths) THEN [ok |-> TRUE, h |-> h]
    ELSE IF 17 + (2 * i) > Len(h) - 1 THEN [ok |-> FALSE, h |-> h]
    ELSE SetLengths_low_first(
             [h EXCEPT ![17 + (2 * i) - 1 + 1] = lengths[i + 1] % 256,
                       ![17 + (2 * i) + 1] = lengths[i + 1] \div 256],
             lengths, i + 1)

\* header, lines 284-286: the loop over lengths from index i on; a store past
\* the end of h is an IndexError
RECURSIVE SetLengths(_, _, _)
SetLengths(h, lengths, i) ==
    IF i >= Len(lengths) THEN [ok |-> TRUE, h |-> h]
    ELSE IF 17 + (2 * i) > Len(h) - 1 THEN [ok |-> FALSE, h |-> h]
    ELSE SetLengths([h EXCEPT ![17 + (2 * i) - 1 + 1] = lengths[i + 1] \div 256,
                              ![17 + (2 * i) + 1] = lengths[i + 1] % 256],
                    lengths, i + 1)

\* header, lines 288-296: the timestamp bytes; date is None when the caller
\* passed something that is no datetime
SetDate(h, date) ==
    [h EXCEPT ![38 + 0 + 1] = date[1].year % 100,
              ![38 + 1 + 1] = date[1].month,
              ![38 + 2 + 1] = date[1].day,
              ![38 + 3 + 1] = date[1].hour,
              ![38 + 4 + 1] = date[1].minute,
              ![38 + 5 + 1] = date[1].second]

Raise(exc) == [status |-> exc, h |-> None]

\* the size guard of header, line 257: lengths_sum > (8192 - 64) / 11 + 1 in
\* real arithmetic, both sides multiplied by 11
TooHigh(lengths_sum) ==
    11 * lengths_sum > (8192 - Len(_protocol_header_template)) + 11

\* header
header(lengths, speeds, modes, blinks, ants, brightness, date) ==
    IF TooHigh(SumSeq(lengths)) THEN Raise("ValueError")
    ELSE The({ IF ~(p[1].ok /\ p[2].ok /\ p[3].ok /\ p[4].ok) THEN Raise("TypeError")
               ELSE The({ IF ~r.ok THEN Raise("IndexError")
                          ELSE IF date = None THEN Raise("TypeError")
                          ELSE [status |-> "ok", h |-> SetDate(r.h, date)]
                          : r \in { SetLengths(
                                SetFlagsAndModes(
                                    SetBrightness(_protocol_header_template, brightness),
                                    p[2].v, p[1].v, [i \in 1..Len(p[3].v) |-> p[3].v[i] - 1],
                                    p[4].v),
                                lengths, 0) } })
               : p \in { << _prepare_iterable(ants, 0, 1),
                            _prepare_iterable(blinks, 0, 1),
                            _prepare_iterable(speeds, 1, 8),
                            _prepare_iterable(modes, 0, 8) >> } })

----------------------------------------------------------------------------
(* The state machine: calls on one WriteLibUsb session *)

\* the buffer of n bytes with pattern seed: no byte is zero
MkBuf(n, seed) == [i \in 1..n |-> 1 + ((i * seed) % 255)]

Seeds == {1}

\* lengths of the buffers handed to write(): around the block size and the ceiling
Lens == {0, 64, 100, 8192 - 63, 8192, 8192 + 1, 8192 + 64}

\* ids handed to open(): 'auto', every id a device could get, and an unknown one
OpenIds == {Auto, <<57, 58, 57, 58, 57>>} \cup
           { Did(p[1], p[2]) : p \in OutEndpoints(UsbDevices) }

\* what may be plugged in when the process starts; without the usb module it
\* makes no difference, and one case stands for all
Plugged == { {}, { d \in UsbDevices : d.address = 2 }, UsbDevices }

\* what a call found before it ran
Pre == [dev |-> dev, endpoint |-> endpoint, description |-> description,
        usblen |-> Len(usb), devices |-> devices]

InitSession ==
    /\ module_loaded \in BOOLEAN
    /\ attached \in Plugged
    /\ module_loaded \/ attached = UsbDevices
    /\ devices = <<>>
    /\ description = None
    /\ dev = None
    /\ endpoint = None
    /\ buf = <<>>
    /\ usb = <<>>
    /\ fatal = "none"
    /\ last = [op |-> "__init__", arg |-> None, ret |-> None, pre |-> None]
    /\ ncalls = 0
    /\ nwrites = 0

Init ==
    /\ InitSession
    /\ hin = None
    /\ hout = None

\* the state after a call that left s
Becomes(s, op, arg) ==
    /\ devices' = s.devices
    /\ description' = s.description
    /\ dev' = s.dev
    /\ endpoint' = s.endpoint
    /\ buf' = s.buf
    /\ usb' = s.usb
    /\ fatal' = s.fatal
    /\ last' = [op |-> op, arg |-> arg, ret |-> Some(s.ret), pre |-> Pre]
    /\ ncalls' = ncalls + 1
    /\ UNCHANGED <<module_loaded, attached, hin, hout>>

Running == fatal = "none" /\ ncalls < MaxCalls

Open(device_id, grant) ==
    /\ Running
    /\ \E s \in {open(Session, device_id, grant)} : Becomes(s, "open", device_id)
    /\ UNCHANGED nwrites

Close ==
    /\ Running
    /\ \E s \in {close(Session)} : Becomes(s, "close", None)
    /\ UNCHANGED nwrites

Write(n, seed, grant) ==
    /\ Running
    /\ nwrites < MaxWrites
    /\ \E b \in {MkBuf(n, seed)} : \E s \in {write(Session, b, grant)} :
           Becomes(s, "write", [len |-> n, seed |-> seed])
    /\ nwrites' = nwrites + 1

GetAvailableDevices(grant) ==
    /\ Running
    /\ \E s \in {get_available_devices(Session, grant)} :
           Becomes(s, "get_available_devices", None)
    /\ UNCHANGED nwrites

IsDevicePresent(grant) ==
    /\ Running
    /\ \E s \in {is_device_present(Session, grant)} :
           Becomes(s, "is_device_present", None)
    /\ UNCHANGED nwrites

Next ==
    \/ \E device_id \in OpenIds, grant \in BOOLEAN : Open(device_id, grant)
    \/ Close
    \/ \E n \in Lens, seed \in Seeds, grant \in BOOLEAN : Write(n, seed, grant)
    \/ \E grant \in BOOLEAN : GetAvailableDevices(grant)
    \/ \E grant \in BOOLEAN : IsDevicePresent(grant)

Spec == Init /\ [][Next]_vars

(* The orchestrator: every call of LedNameBadge.write makes its own session *)

BadgeWrite(n, seed, grantOpen, grantWrite) ==
    /\ Running
    /\ \E b \in {MkBuf(n, seed)} :
           \E s \in {LedNameBadge_write(NewSession, b, grantOpen, grantWrite)} :
               Becomes(s, "LedNameBadge.write", [len |-> n, seed |-> seed])
    /\ nwrites' = nwrites + 1

NextBadge ==
    \E n \in Lens, seed \in Seeds, grantOpen \in BOOLEAN, grantWrite \in BOOLEAN :
        BadgeWrite(n, seed, grantOpen, grantWrite)

SpecBadge == Init /\ [][NextBadge]_vars

----------------------------------------------------------------------------
(* The header builder as a state machine: one call of header on arguments   *)
(* drawn at the start                                                        *)

\* most messages of one call
MaxMessages == 25

\* a lengths list of n messages (none when n = 0): the first of a columns, the
\* others of r
MkLengths(n, a, r) == [i \in 1..n |-> IF i = 1 THEN a ELSE r]

LengthLists ==
    { MkLengths(n, a, r) : n \in 0..MaxMessages, a \in {0, 10, 300, 738, 739, 740},
                           r \in {0, 1} }

SpeedLists == { <<4>>, <<3>>, <<0, 9>>, <<1, 2, 3, 4, 5, 6, 7, 8, 8>> }

ModeLists == { <<0>>, <<5, 8>>, <<-1, 9, 4>> }

FlagLists == { <<0>>, <<1, 0>>, <<0, 1, 2>> }

\* both sides of every brightness step, and full brightness
BrightnessValues == {25, 26, 50, 51, 75, 76, 100}

Dates == { Some([year |-> 2026, month |-> 11, day |-> 4,
                 hour |-> 9, minute |-> 30, second |-> 59]) }

InitHeader ==
    /\ module_loaded = FALSE
    /\ attached = {}
    /\ devices = <<>>
    /\ description = None
    /\ dev = None
    /\ endpoint = None
    /\ buf = <<>>
    /\ usb = <<>>
    /\ fatal = "none"
    /\ last = [op |-> "__init__", arg |-> None, ret |-> None, pre |-> None]
    /\ ncalls = 0
    /\ nwrites = 0
    /\ hin \in [lengths : LengthLists, speeds : SpeedLists, modes : ModeLists,
                blinks : FlagLists, ants : {<<0>>, <<1>>},
                brightness : BrightnessValues, date : Dates]
    /\ hout = None

Header ==
    /\ hout = None
    /\ hout' = Some(header(hin.lengths, hin.speeds, hin.modes, hin.blinks, hin.ants,
                           hin.brightness, hin.date))
    /\ UNCHANGED <<module_loaded, attached, devices, description, dev, endpoint, buf,
                   usb, fatal, last, ncalls, nwrites, hin>>

NextHeader == Header

SpecHeader == InitHeader /\ [][NextHeader]_vars

----------------------------------------------------------------------------
(* cli.py, main: the header for the messages' lengths, then the bitmaps,    *)
(* then LedNameBadge.write on the whole.  The bitmaps come from the font     *)
(* renderer, which gives 11 bytes for every column it declares.              *)

\* the bitmaps of all messages, one after the other
Payload(lengths) == [i \in 1..(11 * SumSeq(lengths)) |-> 1 + (i % 255)]

InitMain ==
    /\ InitSession
    /\ hin \in [lengths : LengthLists, speeds : {<<4>>}, modes : {<<0>>},
                blinks : {<<0>>}, ants : {<<0>>}, brightness : {100}, date : Dates]
    /\ hout = None

\* main from `buf = array('B')` on; an exception of header ends it there
Main(grantOpen, grantWrite) ==
    /\ Running
    /\ hout = None
    /\ \E r \in {header(hin.lengths, hin.speeds, hin.modes, hin.blinks, hin.ants,
                         hin.brightness, hin.date)} :
           /\ hout' = Some(r)
           /\ \E s \in { IF r.status # "ok" THEN Session
                          ELSE LedNameBadge_write(NewSession, r.h \o Payload(hin.lengths),
                                                  grantOpen, grantWrite) } :
                  /\ devices' = s.devices
                  /\ description' = s.description
                  /\ dev' = s.dev
                  /\ endpoint' = s.endpoint
                  /\ buf' = s.buf
                  /\ usb' = s.usb
                  /\ fatal' = s.fatal
                  /\ last' = [op |-> "main", arg |-> None, ret |-> Some(s.ret),
                              pre |-> Pre]
    /\ ncalls' = ncalls + 1
    /\ UNCHANGED <<module_loaded, attached, nwrites, hin>>

NextMain == \E grantOpen \in BOOLEAN, grantWrite \in BOOLEAN : Main(grantOpen, grantWrite)

SpecMain == InitMain /\ [][NextMain]_vars

----------------------------------------------------------------------------
(* Properties of WriteLibUsb and LedNameBadge.write *)

\* the smallest multiple of 64 that is >= n
PaddedLen(n) == ((n + 63) \div 64) * 64

\* the buffer MkBuf(n, seed) followed by zeros up to PaddedLen(n)
ExpectedPadded(n, seed) ==
    [i \in 1..PaddedLen(n) |-> IF i <= n THEN 1 + ((i * seed) % 255) ELSE 0]

\* the access-layer calls the latest call made
Made == SubSeq(usb, last.pre.usblen + 1, Len(usb))

\* the endpoint writes among them
WritesMade == SelectSeq(Made, LAMBDA e : e.op = "write")

SessionEmpty == description = None /\ dev = None /\ endpoint = None

\* C1: a write() whose buffer, padded to a multiple of 64, is longer than 8192
\* bytes fails (the call ends in sys.exit) and not one chunk reaches the endpoint.
C1_OversizeWritesNothing ==
    (last.op = "write" /\ PaddedLen(last.arg.len) > 8192) =>
        /\ fatal # "none"
        /\ WritesMade = <<>>
        /\ Made = <<>>

C1_Witness ==
    /\ last.op = "write"
    /\ last.arg.len = 8192 + 1
    /\ Len(buf) = 8192 + 64
    /\ last.pre.dev # None
    /\ fatal # "none"

\* C2 as stated: with a device open and a padded length L <= 8192, write()
\* makes exactly L/64 endpoint writes, the k-th carrying bytes [64k, 64k+64)
\* of the padded buffer, in ascending order.
C2_ChunksWhenOpen ==
    (/\ last.op = "write"
     /\ last.pre.dev # None
     /\ PaddedLen(last.arg.len) <= 8192) =>
        \A w \in {WritesMade}, x \in {ExpectedPadded(last.arg.len, last.arg.seed)} :
            /\ Len(w) = Len(x) \div 64
            /\ \A k \in 0..(Len(w) - 1) :
                   w[k + 1].data = SubSeq(x, 64 * k + 1, 64 * k + 64)

\* C2, amended: with a device open, a padded length L <= 8192 and the
\* configuration claim granted, write() makes exactly L/64 endpoint writes after
\* the claim and nothing else; the k-th (k = 0..L/64-1) goes to the opened
\* endpoint and carries exactly the 64 bytes [64k, 64k+64) of the padded buffer.
C2_ChunksWhenGranted ==
    (/\ last.op = "write"
     /\ last.pre.dev # None
     /\ PaddedLen(last.arg.len) <= 8192
     /\ fatal = "none") =>
        \A m \in {Made}, x \in {ExpectedPadded(last.arg.len, last.arg.seed)} :
            /\ Len(m) = 1 + (PaddedLen(last.arg.len) \div 64)
            /\ m[1].op = "set_configuration"
            /\ \A k \in 0..(Len(m) - 2) :
                   /\ m[k + 2].op = "write"
                   /\ m[k + 2].ep = last.pre.endpoint
                   /\ Len(m[k + 2].data) = 64
                   /\ m[k + 2].data = SubSeq(x, 64 * k + 1, 64 * k + 64)

C2_Witness ==
    /\ last.op = "write"
    /\ last.pre.dev # None
    /\ last.arg.len = 8192 - 63
    /\ fatal = "none"
    /\ Len(WritesMade) = 128

\* C3: LedNameBadge.write closes its session on every exit path after open:
\* once open('auto') found a device (the session's device map is not empty),
\* the function ends, normally or because the write step failed, only after
\* close() was executed: the handle was reset and the session's handle is empty.
C3_ClosedOnEveryExit ==
    (last.op = "LedNameBadge.write" /\ DOMAIN devices # {}) =>
        /\ last.ret[1][Len(last.ret[1])] = "close"
        /\ \E i \in 1..Len(Made) : Made[i].op = "reset"
        /\ dev = None

\* C6: the padding step of write() leaves the buffer at the smallest multiple
\* of 64 that is >= its length n, the first n bytes as they were and only zeros
\* after them; a buffer whose length is a multiple of 64 is unchanged, and
\* padding the result again changes nothing.
C6_Padding ==
    last.op = "write" =>
        /\ Len(buf) % 64 = 0
        /\ Len(buf) >= last.arg.len
        /\ Len(buf) - last.arg.len < 64
        /\ SubSeq(buf, 1, last.arg.len) = MkBuf(last.arg.len, last.arg.seed)
        /\ \A i \in (last.arg.len + 1)..Len(buf) : buf[i] = 0
        /\ (last.arg.len % 64 = 0 => buf = MkBuf(last.arg.len, last.arg.seed))
        /\ (last.arg.len = 100 => Len(buf) = 128)
        /\ add_padding(buf, 64) = buf

C6_Witness ==
    /\ last.op = "write"
    /\ last.arg.len = 100
    /\ Len(buf) = 128
    /\ buf[100] # 0
    /\ buf[101] = 0

\* C7 as stated: for every buffer, write() on a session with no device open
\* makes no endpoint write, does not end the process and leaves the session empty.
C7_NoDeviceNoOp ==
    (last.op = "write" /\ last.pre.dev = None) =>
        /\ fatal = "none"
        /\ Made = <<>>
        /\ SessionEmpty

\* C7, amended: for every buffer whose padded length is at most 8192 bytes,
\* write() on a session with no device open makes no call on the USB layer,
\* returns normally and leaves handle, endpoint and description empty.
C7_NoDeviceNoOpWithinLimit ==
    (/\ last.op = "write"
     /\ last.pre.dev = None
     /\ PaddedLen(last.arg.len) <= 8192) =>
        /\ fatal = "none"
        /\ last.ret = Some(None)
        /\ Made = <<>>
        /\ SessionEmpty

C7_Witness ==
    /\ last.op = "write"
    /\ last.pre.dev = None
    /\ DOMAIN devices # {}
    /\ last.arg.len = 8192
    /\ fatal = "none"
    /\ \E i \in 1..Len(usb) : usb[i].op = "reset"

\* C8: once open() has succeeded and until close(), a further open() does not
\* replace the session's device handle with that of a different device.
C8_NoSilentReopen ==
    (last.op = "open" /\ last.pre.dev # None) => dev = last.pre.dev

Id_1_2_1 == <<49, 58, 50, 58, 49>>

Id_1_2_3 == <<49, 58, 50, 58, 51>>

Id_1_10_1 == <<49, 58, 49, 48, 58, 49>>

\* the session holds what the device map records for id
Holds(id) ==
    /\ description = Some(devices[id][1])
    /\ dev = Some(devices[id][2])
    /\ endpoint = Some(devices[id][3])

\* C10: on a session whose device map is not empty, open('auto') opens the id
\* that is the minimum in string order ('1:2:1' of '1:2:3' and '1:2:1') and
\* open(id) with a discovered id opens that id; both return True and leave the
\* description, handle and endpoint recorded for the id.
C10_OpenSelects ==
    (last.op = "open" /\ DOMAIN last.pre.devices # {}) =>
        /\ devices = last.pre.devices
        /\ last.arg = Auto =>
               /\ last.ret = Some(TRUE)
               /\ \E m \in DOMAIN devices :
                      /\ \A j \in DOMAIN devices : ~StrLess(j, m)
                      /\ Holds(m)
               /\ DOMAIN devices = {Id_1_2_1, Id_1_2_3} => Holds(Id_1_2_1)
               /\ Id_1_10_1 \in DOMAIN devices => Holds(Id_1_10_1)
        /\ last.arg \in DOMAIN devices =>
               /\ last.ret = Some(TRUE)
               /\ Holds(last.arg)

C10_Witness ==
    /\ last.op = "open"
    /\ last.arg = Auto
    /\ DOMAIN last.pre.devices = {Id_1_2_1, Id_1_2_3}
    /\ last.ret = Some(TRUE)
    /\ Holds(Id_1_2_1)

\* the id '9:9:9', which no device gets
Id_9_9_9 == <<57, 58, 57, 58, 57>>

\* the call left handle, endpoint and description as it found them
SessionKept ==
    /\ dev = last.pre.dev
    /\ endpoint = last.pre.endpoint
    /\ description = last.pre.description

\* C11: open() returns False and does not end the process when the usb module
\* is not loaded, when nothing is plugged in (discovery finds no device), or
\* when the id asked for is not 'auto' and not among the discovered ids; in
\* each case handle, endpoint and description are as before the call, and so is
\* has_device().
C11_OpenFailsQuietly ==
    (/\ last.op = "open"
     /\ \/ ~module_loaded
        \/ module_loaded /\ attached = {}
        \/ DOMAIN devices # {} /\ last.arg # Auto /\ last.arg \notin DOMAIN devices) =>
        /\ fatal = "none"
        /\ last.ret = Some(FALSE)
        /\ SessionKept
        /\ has_device(Session) = (last.pre.dev # None)

\* an unknown id asked for on a session that holds a device
C11_Witness ==
    /\ last.op = "open"
    /\ last.arg = Id_9_9_9
    /\ last.pre.dev # None
    /\ DOMAIN devices # {}
    /\ last.ret = Some(FALSE)
    /\ dev = last.pre.dev

\* C17: on a session whose device map has an entry, get_available_devices(),
\* is_device_present() and open(), also after a close(), do not enumerate the
\* bus again (no find, no configuration claim) and do not end the process; the
\* map stays as it was and get_available_devices() returns its id ->
\* description mapping.
C17_DiscoveryOnce ==
    (/\ last.op \in {"get_available_devices", "is_device_present", "open"}
     /\ DOMAIN last.pre.devices # {}) =>
        /\ Made = <<>>
        /\ fatal = "none"
        /\ devices = last.pre.devices
        /\ last.op = "get_available_devices" =>
               last.ret = Some([k \in DOMAIN last.pre.devices |->
                                   last.pre.devices[k][1]])
        /\ last.op = "is_device_present" => last.ret = Some(TRUE)

\* get_available_devices() after an open and a close
C17_Witness ==
    /\ last.op = "get_available_devices"
    /\ DOMAIN last.pre.devices = {Id_1_2_1, Id_1_2_3}
    /\ usb[Len(usb)].op = "dispose_resources"
    /\ usb[1].op = "find"
    /\ DOMAIN last.ret[1] = {Id_1_2_1, Id_1_2_3}
    /\ last.ret[1][Id_1_2_3] = [bus |-> 1, dev |-> 2, endpoint |-> 3]

\* C18: a write() during which the OS denies the configuration claim ends the
\* process with the no-write-access message; the denied claim is the only call
\* the write makes on the USB layer: one attempt, on the open handle, no
\* endpoint write before or after it.
C18_DeniedClaimIsFatal ==
    (/\ last.op = "write"
     /\ \E i \in 1..Len(Made) : Made[i].op = "set_configuration_denied") =>
        /\ fatal = "No write access to device!"
        /\ Made = <<Event("set_configuration_denied", last.pre.dev, None, <<>>)>>
        /\ WritesMade = <<>>
        /\ dev = last.pre.dev

C18_Witness ==
    /\ last.op = "write"
    /\ last.arg.len = 100
    /\ last.pre.dev # None
    /\ fatal = "No write access to device!"
    /\ Len(Made) = 1
    /\ Made[1].op = "set_configuration_denied"

----------------------------------------------------------------------------
(* Properties of LedNameBadge.header *)

\* the frame a lengths list implies: the header and 11 bytes per column
FrameSize(lengths) == 64 + 11 * SumSeq(lengths)

\* C4: for every lengths list whose implied frame size 64 + 11*sum(lengths)
\* exceeds 8192 bytes, header fails with ValueError and returns no header.
C4_OversizeRejected ==
    (hout # None /\ FrameSize(hin.lengths) > 8192) =>
        /\ hout[1].status = "ValueError"
        /\ hout[1].h = None

\* C5: for every lengths list that passes the size guard, however many
\* messages it has, header returns normally and its result has exactly 64 bytes.
C5_AlwaysSixtyFourBytes ==
    (hout # None /\ hout[1].status # "ValueError") =>
        /\ hout[1].status = "ok"
        /\ Len(hout[1].h) = 64

\* x limited to lo..hi
Clamp(x, lo, hi) == Min(Max(x, lo), hi)

\* the element that slot i (0..7) of a per-message argument stands for: its
\* own, or the last one given when there are fewer than i + 1
Slot(q, i) == IF i < Len(q) THEN q[i + 1] ELSE q[Len(q)]

\* the header that came back
H == hout[1].h

Returned == hout # None /\ hout[1].status = "ok"

\* C12: in every header returned, whatever the number of lengths, slot i
\* (0..7) carries the clamped element i of speeds, modes, blinks and ants when
\* that many were given, and the clamped last element otherwise: speed - 1 in
\* the high nibble and mode in the low nibble of byte 8+i, blink in bit i of
\* byte 6, ants in bit i of byte 7.
C12_PaddingByRepetition ==
    Returned =>
        \A i \in 0..7 :
            /\ H[8 + i + 1] \div 16 = Clamp(Slot(hin.speeds, i), 1, 8) - 1
            /\ H[8 + i + 1] % 16 = Clamp(Slot(hin.modes, i), 0, 8)
            /\ (H[6 + 1] \div Pow2(i)) % 2 = Clamp(Slot(hin.blinks, i), 0, 1)
            /\ (H[7 + 1] \div Pow2(i)) % 2 = Clamp(Slot(hin.ants, i), 0, 1)

\* speeds [0, 9], modes [-1, 9, 4], blinks [0, 1, 2], ants [1], nine lengths
C12_Witness ==
    /\ Returned
    /\ hin.speeds = <<0, 9>>
    /\ hin.modes = <<-1, 9, 4>>
    /\ hin.blinks = <<0, 1, 2>>
    /\ hin.ants = <<1>>
    /\ Len(hin.lengths) = 9
    /\ H[8 + 0 + 1] = 0
    /\ H[8 + 1 + 1] = 16 * 7 + 8
    /\ H[8 + 7 + 1] = 16 * 7 + 4
    /\ H[6 + 1] = 254
    /\ H[7 + 1] = 255

\* C13: header called with an empty lengths list fails with TypeError and
\* yields no header.
C13_EmptyLengthsRejected ==
    (hout # None /\ hin.lengths = <<>>) =>
        /\ hout[1].status = "TypeError"
        /\ hout[1].h = None

\* the brightness code the steps give
BrightnessCode(b) ==
    IF b <= 25 THEN 64 ELSE IF b <= 50 THEN 32 ELSE IF b <= 75 THEN 16 ELSE 0

\* C14: byte 5 of a returned header is 0x40 for brightness <= 25, 0x20 for
\* 26..50, 0x10 for 51..75 and 0x00 above 75 (25, 26, 50, 51, 75, 76, 100 give
\* 0x40, 0x20, 0x20, 0x10, 0x10, 0x00, 0x00), and nothing else depends on
\* brightness: the same call with brightness 100 has the same outcome and the
\* same bytes everywhere but at offset 5.
C14_BrightnessSteps ==
    hout # None =>
        /\ Returned =>
               /\ H[5 + 1] = BrightnessCode(hin.brightness)
               /\ \A p \in { <<25, 64>>, <<26, 32>>, <<50, 32>>, <<51, 16>>,
                              <<75, 16>>, <<76, 0>>, <<100, 0>> } :
                      hin.brightness = p[1] => H[5 + 1] = p[2]
        /\ \A r \in { header(hin.lengths, hin.speeds, hin.modes, hin.blinks,
                              hin.ants, 100, hin.date) } :
               /\ r.status = hout[1].status
               /\ Returned => [H EXCEPT ![5 + 1] = 0] = r.h

C14_Witness ==
    /\ Returned
    /\ hin.brightness = 51
    /\ H[5 + 1] = 16
    /\ H[5] = 0
    /\ H[6 + 1] = 254

\* C15: in a header returned for n lengths, 1 <= n <= 8, the bytes at offsets
\* 16+2i and 17+2i are lengths[i] div 256 and lengths[i] mod 256 for i < n, and
\* 0 for the slots i = n..7 that no message uses.
C15_LengthBytes ==
    (Returned /\ Len(hin.lengths) \in 1..8) =>
        \A i \in 0..7 :
            IF i < Len(hin.lengths)
            THEN /\ H[16 + 2 * i + 1] = hin.lengths[i + 1] \div 256
                 /\ H[17 + 2 * i + 1] = hin.lengths[i + 1] % 256
            ELSE /\ H[16 + 2 * i + 1] = 0
                 /\ H[17 + 2 * i + 1] = 0

\* lengths [300, 1, 1]: 300 = 1 * 256 + 44
C15_Witness ==
    /\ Returned
    /\ hin.lengths = <<300, 1, 1>>
    /\ H[16 + 1] = 1
    /\ H[17 + 1] = 44
    /\ H[18 + 1] = 0
    /\ H[19 + 1] = 1
    /\ H[22 + 1] = 0

\* C16: byte 8+i of a returned header, i in 0..7, is 16*(s-1) + m for the
\* speed s of slot i clamped to 1..8 and the mode m of slot i clamped to 0..8:
\* its high nibble is in 0..7, its low nibble in 0..8, and it is never above 120.
C16_SpeedModeByte ==
    Returned =>
        \A i \in 0..7 :
            \A s \in {Clamp(Slot(hin.speeds, i), 1, 8)},
               m \in {Clamp(Slot(hin.modes, i), 0, 8)} :
                /\ H[8 + i + 1] = 16 * (s - 1) + m
                /\ H[8 + i + 1] \div 16 \in 0..7
                /\ H[8 + i + 1] % 16 \in 0..8
                /\ H[8 + i + 1] <= 120

\* speed 0 with mode -1 gives 0x00, speed 9 with mode 9 gives 0x78
C16_Witness ==
    /\ Returned
    /\ hin.speeds = <<0, 9>>
    /\ hin.modes = <<-1, 9, 4>>
    /\ H[8 + 0 + 1] = 0
    /\ H[8 + 1 + 1] = 120
    /\ H[8 + 2 + 1] = 16 * 7 + 4

\* C19: whenever header accepts the lengths of main's messages, the frame of
\* the 64-byte header and 11 bytes per column has a padded length of at most
\* 8192 bytes, and the write that follows does not end in the oversize abort.
C19_GuardsAgree ==
    (last.op = "main" /\ Returned) =>
        /\ PaddedLen(FrameSize(hin.lengths)) <= 8192
        /\ Len(buf) <= 8192
        /\ fatal # "Writing more than 8192 bytes damages the display!"

\* the offsets header is to leave as the template has them
ReservedOffsets == (0..4) \cup (32..37) \cup (44..63)

\* C20: every header returned, also for more than 8 lengths, has the
\* template's bytes at offsets 0..4, 32..37 and 44..63: 0x77 0x61 0x6e 0x67
\* 0x00 at 0..4 and 0x00 at the others.
C20_ReservedBytesKept ==
    Returned =>
        /\ SubSeq(H, 1, 5) = <<119, 97, 110, 103, 0>>
        /\ \A k \in ReservedOffsets : H[k + 1] = _protocol_header_template[k + 1]

====
